---- MODULE Spec2Model ----
(***************************************************************************)
(* Model of the RP_TSL sweep acquisition: the Red Pitaya digitizer (ACQ),  *)
(* the TSL laser (TSL / TRIGGER / STS), the sweep engine of sts.py         *)
(* (get_data, set_sweep_parameters, sweep_STS) and the worker threads and  *)
(* event loop of main.py.                                                  *)
(*                                                                         *)
(* Text is modelled as a sequence of characters.  A character is a record  *)
(* [c, v]: c is "{", "}", "," or "!" (a character no number contains), or  *)
(* "#" for the text of one sample, whose identity is v.  A sample's        *)
(* identity is its absolute write index in the digitizer's circular        *)
(* buffer, so that order, loss and duplication of samples are visible.     *)
(***************************************************************************)
EXTENDS Integers, Sequences, FiniteSets, TLC

(* ----------------------------- bounds ---------------------------------- *)
\* The digitizer's circular buffer, scaled down from 16384 (sts.py:28).
BUFFER_SIZE == 4
\* Most trigger-status polls that are answered with something other than "TD".
MaxPolls == 2
\* Worker threads the event loop may have started and not yet seen finish.
MaxWorkers == 2
\* Most setter calls a client makes one after the other.
MaxCalls == 2
\* Most samples handed to plot_data.
MaxSamples == 5
\* The waveSpin events a run handles.
MaxSpins == 1
\* The saveButton events a run handles.
MaxSaves == 1

Workers == 1..MaxWorkers

(* ------------------------ program constants ---------------------------- *)
WAVELENGTH_MIN == 1480
WAVELENGTH_MAX == 1640
\* Sweep speed in tenths of nm/s: 0.5 nm/s and 200 nm/s.
SPEED_MIN10 == 5
SPEED_MAX10 == 2000
POWER_MAX == 13
\* Sweep step in tenths of pm: 0.1 pm and 160000 pm.
STEP_MIN10 == 1
STEP_MAX10 == 1600000
dec == 2048

VARIABLES
  pc,                \* [Workers -> label]: each worker thread's position
  previous_pointer,  \* [Workers -> Int]: sweep_STS's local
  current_pointer,   \* [Workers -> Int]: get_data's local
  gd_string,         \* [Workers -> text]: get_data's local buffer_string
  buffer_string,     \* [Workers -> text]: sweep_STS's local buffer_string
  params,            \* [Workers -> record]: sweep_plot's params
  result,            \* [Workers -> record]: how the worker's sweep_STS call ended
  trace,             \* [Workers -> Seq(command)]: commands the worker's call has sent
  drains,            \* [Workers -> Seq(record)]: the get_data calls that returned
  reads,             \* [Workers -> Seq(<<start, N>>)]: requests of the get_data call in progress
  stats,             \* [Workers -> Seq(STRING)]: trigger-status replies of the call
  fault,             \* [Workers -> record]: where an exception was raised ("" if none), and
                     \*   how many trace entries the call had made by then
  site,              \* [Workers -> STRING]: which call of get_data is in progress: "loop", "tail" or ""
  rp,                \* the digitizer: [logging, total, avg, dec, units, level, trig, dly]
  tsl,               \* the laser: [swe, ext, stan, act, outp, star, stop, spe, pow, wav, diode, step, mod]
  terminal,          \* whether the digitizer ends a reply's list with a delimiter
  sweep_state,       \* main.py global
  loop_state,        \* main.py global
  call,              \* the call a client makes of a setter or of plot_data: its
                     \*   arguments, and what the call did and returned
  wave,              \* main.py global: the wavelengths of the spectrum last plotted
  data               \* main.py global: the amplitudes of the spectrum last plotted

vars == <<pc, previous_pointer, current_pointer, gd_string, buffer_string, params,
          result, trace, drains, reads, stats, fault, site, rp, tsl, terminal,
          sweep_state, loop_state, call, wave, data>>

(* ------------------------------- text ---------------------------------- *)
Ch(c) == [c |-> c, v |-> 0]
Num(n) == [c |-> "#", v |-> n]
Txt(c) == <<Ch(c)>>

\* str.strip(chars): leading and trailing characters of the set removed.
RECURSIVE LStrip(_, _)
LStrip(s, chars) ==
  IF s # <<>> /\ s[1].c \in chars THEN LStrip(Tail(s), chars) ELSE s

RECURSIVE RStrip(_, _)
RStrip(s, chars) ==
  IF s # <<>> /\ s[Len(s)].c \in chars THEN RStrip(SubSeq(s, 1, Len(s) - 1), chars) ELSE s

Strip(s, chars) == RStrip(LStrip(s, chars), chars)

\* str.replace(c, ""): every occurrence of the character removed.
Remove(s, c) == SelectSeq(s, LAMBDA t : t.c # c)

\* str.split(","): n delimiters give n + 1 tokens, empty ones included.
RECURSIVE Split(_, _)
Split(s, acc) ==
  IF s = <<>> THEN <<acc>>
  ELSE IF s[1].c = "," THEN <<acc>> \o Split(Tail(s), <<>>)
  ELSE Split(Tail(s), Append(acc, s[1]))

\* s[1:]
DropFirst(s) == IF s = <<>> THEN <<>> ELSE Tail(s)

\* s[:-1]
DropLast(s) == IF s = <<>> THEN <<>> ELSE SubSeq(s, 1, Len(s) - 1)

\* float(token) succeeds on the text of exactly one number.
IsFloat(tok) == Len(tok) = 1 /\ tok[1].c = "#"

\* The join of texts with a delimiter between them (the instrument's list).
RECURSIVE Join(_)
Join(nums) ==
  IF nums = <<>> THEN <<>>
  ELSE IF Len(nums) = 1 THEN <<Num(nums[1])>>
  ELSE <<Num(nums[1]), Ch(",")>> \o Join(Tail(nums))

(* --------------------------- instruments ------------------------------- *)
\* One command written to an instrument's channel: the channel, the command
\* text and its numeric arguments (0 where it has none).
Cmd(ch, cmd, a, b) == [ch |-> ch, cmd |-> cmd, a |-> a, b |-> b]

\* time.time() read into the named local: not a command, kept in the trace
\* for its place among the commands.
TimeMark(name) == [ch |-> "time", cmd |-> name, a |-> 0, b |-> 0]

\* The digitizer's list reply for the given samples: "{v1,v2,...}", with a
\* delimiter after the last value when the instrument ends lists that way.
Reply(samples, term) ==
  Txt("{") \o Join(samples)
           \o (IF term /\ samples # <<>> THEN Txt(",") ELSE <<>>)
           \o Txt("}")

\* A reply no number can be read from ("ERR!").
ErrReply == Txt("!")

\* The absolute write index of the sample held at buffer offset o when the
\* digitizer has written `total` samples (total >= BUFFER_SIZE: the buffer
\* has been filled once).
Content(o, total) == total - 1 - ((total - 1 - o) % BUFFER_SIZE)

\* The samples of N consecutive offsets from start.
Segment(start, N, total) ==
  [i \in 1..N |-> Content((start + i - 1) % BUFFER_SIZE, total)]

\* Mutant of RpApply: ACQ:DEC taken as a factor on the decimation in force.
RpApply_DecimationFactor(r, c) ==
  IF c.cmd = "ACQ:DEC" THEN [r EXCEPT !.dec = @ * c.a] ELSE r

\* The digitizer after a command.  ACQ:RST puts every setting back to the
\* instrument's default ("default", or -1 for a number).
RpApply(r, c) ==
  CASE c.cmd = "ACQ:RST"              -> [r EXCEPT !.logging = FALSE, !.avg = "default",
                                                   !.dec = -1, !.units = "default",
                                                   !.level = -1, !.trig = "default",
                                                   !.dly = -1]
    [] c.cmd = "ACQ:START"            -> [r EXCEPT !.logging = TRUE]
    [] c.cmd = "ACQ:STOP"             -> [r EXCEPT !.logging = FALSE]
    [] c.cmd = "ACQ:AVG OFF"          -> [r EXCEPT !.avg = "OFF"]
    [] c.cmd = "ACQ:AVG ON"           -> [r EXCEPT !.avg = "ON"]
    [] c.cmd = "ACQ:DEC"              -> [r EXCEPT !.dec = c.a]
    [] c.cmd = "ACQ:DATA:UNITS VOLTS" -> [r EXCEPT !.units = "VOLTS"]
    [] c.cmd = "ACQ:DATA:UNITS RAW"   -> [r EXCEPT !.units = "RAW"]
    [] c.cmd = "ACQ:TRIG:LEV"         -> [r EXCEPT !.level = c.a]
    [] c.cmd = "ACQ:TRIG:DLY"         -> [r EXCEPT !.dly = c.a]
    [] c.cmd = "ACQ:TRIG CH2_NE"      -> [r EXCEPT !.trig = "CH2_NE"]
    [] OTHER                          -> r

\* The laser after a command.
TslApply(t, c) ==
  CASE c.cmd = ":WAV:SWE"          -> [t EXCEPT !.swe = c.a]
    [] c.cmd = ":TRIG:INP:EXT"     -> [t EXCEPT !.ext = c.a]
    [] c.cmd = ":TRIG:INP:STAN"    -> [t EXCEPT !.stan = c.a]
    [] c.cmd = ":TRIG:INP:ACT"     -> [t EXCEPT !.act = c.a]
    [] c.cmd = ":TRIG:OUTP"        -> [t EXCEPT !.outp = c.a]
    [] c.cmd = ":WAV:SWE:STAR nm"  -> [t EXCEPT !.star = c.a]
    [] c.cmd = ":WAV:SWE:STOP nm"  -> [t EXCEPT !.stop = c.a]
    [] c.cmd = ":WAV:SWE:SPE nm/s" -> [t EXCEPT !.spe = c.a]
    [] c.cmd = ":POW mW"           -> [t EXCEPT !.pow = c.a]
    [] c.cmd = ":WAV nm"           -> [t EXCEPT !.wav = c.a]
    [] c.cmd = ":POW:STAT"         -> [t EXCEPT !.diode = c.a]
    [] c.cmd = ":WAV:SWE:STEP pm"  -> [t EXCEPT !.step = c.a]
    [] c.cmd = ":WAV:SWE:MOD"      -> [t EXCEPT !.mod = c.a]
    [] OTHER                       -> t

\* Both instruments after the commands of a sequence, in order.
RECURSIVE RpAfter(_, _)
RpAfter(r, cmds) ==
  IF cmds = <<>> THEN r
  ELSE RpAfter(IF cmds[1].ch = "RP" THEN RpApply(r, cmds[1]) ELSE r, Tail(cmds))

RECURSIVE TslAfter(_, _)
TslAfter(t, cmds) ==
  IF cmds = <<>> THEN t
  ELSE TslAfter(IF cmds[1].ch = "TSL" THEN TslApply(t, cmds[1]) ELSE t, Tail(cmds))

(* ----------------------------- setters --------------------------------- *)
\* Each setter is the sequence of commands it writes for its argument: one
\* command, or none when its range check raises ValueError.

\* str.lower() and str.upper(), on the strings callers pass.
lower(s) ==
  CASE s \in {"None", "NONE"} -> "none"
    [] s \in {"Stop", "STOP"} -> "stop"
    [] s = "Start"            -> "start"
    [] s = "Step"             -> "step"
    [] s = "Never"            -> "never"
    [] OTHER                  -> s

upper(s) ==
  CASE s \in {"on", "On"}       -> "ON"
    [] s \in {"off", "Off"}     -> "OFF"
    [] s \in {"raw", "Raw"}     -> "RAW"
    [] s \in {"volts", "Volts"} -> "VOLTS"
    [] s = "auto"               -> "AUTO"
    [] OTHER                    -> s

\* Python's a & b on integers of any sign (two's complement, unbounded).
RECURSIVE BitAnd(_, _)
BitAnd(a, b) ==
  IF a = 0 \/ b = 0 THEN 0
  ELSE IF a = -1 THEN b
  ELSE IF b = -1 THEN a
  ELSE (a % 2) * (b % 2) + 2 * BitAnd(a \div 2, b \div 2)

set_wavelength(wavelength) ==
  IF WAVELENGTH_MIN <= wavelength /\ wavelength <= WAVELENGTH_MAX
  THEN <<Cmd("TSL", ":WAV nm", wavelength, 0)>> ELSE <<>>

set_diode_state(state) ==
  IF state = 0 \/ state = 1 THEN <<Cmd("TSL", ":POW:STAT", state, 0)>> ELSE <<>>

set_external_trigger(mode) ==
  IF mode = 0 \/ mode = 1 THEN <<Cmd("TSL", ":TRIG:INP:EXT", mode, 0)>> ELSE <<>>

\* Mutant of set_trigger_edge: the command written without the check.
set_trigger_edge_Unchecked(edge) == <<Cmd("TSL", ":TRIG:INP:ACT", edge, 0)>>

set_trigger_edge(edge) ==
  IF edge = 0 \/ edge = 1 THEN <<Cmd("TSL", ":TRIG:INP:ACT", edge, 0)>> ELSE <<>>

set_trigger_standby(mode) ==
  IF mode = 0 \/ mode = 1 THEN <<Cmd("TSL", ":TRIG:INP:STAN", mode, 0)>> ELSE <<>>

set_trigger_output(when) ==
  CASE lower(when) = "none"  -> <<Cmd("TSL", ":TRIG:OUTP", 0, 0)>>
    [] lower(when) = "stop"  -> <<Cmd("TSL", ":TRIG:OUTP", 1, 0)>>
    [] lower(when) = "start" -> <<Cmd("TSL", ":TRIG:OUTP", 2, 0)>>
    [] lower(when) = "step"  -> <<Cmd("TSL", ":TRIG:OUTP", 3, 0)>>
    [] OTHER                 -> <<>>

\* The step is in tenths of pm.
set_sweep_step(step10) ==
  IF STEP_MIN10 <= step10 /\ step10 <= STEP_MAX10
  THEN <<Cmd("TSL", ":WAV:SWE:STEP pm", step10, 0)>> ELSE <<>>

set_sweep_mode(mode) ==
  IF mode \in {0, 1, 2, 3} THEN <<Cmd("TSL", ":WAV:SWE:MOD", mode, 0)>> ELSE <<>>

set_start_wavelength(wavelength) ==
  IF WAVELENGTH_MIN <= wavelength /\ wavelength <= WAVELENGTH_MAX
  THEN <<Cmd("TSL", ":WAV:SWE:STAR nm", wavelength, 0)>> ELSE <<>>

set_stop_wavelength(wavelength) ==
  IF WAVELENGTH_MIN <= wavelength /\ wavelength <= WAVELENGTH_MAX
  THEN <<Cmd("TSL", ":WAV:SWE:STOP nm", wavelength, 0)>> ELSE <<>>

set_sweep_speed(speed10) ==
  IF SPEED_MIN10 <= speed10 /\ speed10 <= SPEED_MAX10
  THEN <<Cmd("TSL", ":WAV:SWE:SPE nm/s", speed10, 0)>> ELSE <<>>

set_power(power) ==
  IF power <= POWER_MAX THEN <<Cmd("TSL", ":POW mW", power, 0)>> ELSE <<>>

set_averaging(state) ==
  CASE upper(state) = "ON"  -> <<Cmd("RP", "ACQ:AVG ON", 0, 0)>>
    [] upper(state) = "OFF" -> <<Cmd("RP", "ACQ:AVG OFF", 0, 0)>>
    [] OTHER                -> <<>>

\* Mutant of is_power_of_two: the test dec != 0 left out.
is_power_of_two_ZeroToo(n) == BitAnd(n, n - 1) = 0

\* (dec != 0) and ((dec & (dec - 1)) == 0)
is_power_of_two(n) == n # 0 /\ BitAnd(n, n - 1) = 0

set_decimation(n) ==
  IF is_power_of_two(n) THEN <<Cmd("RP", "ACQ:DEC", n, 0)>> ELSE <<>>

set_data_units(unit) ==
  CASE upper(unit) = "RAW"   -> <<Cmd("RP", "ACQ:DATA:UNITS RAW", 0, 0)>>
    [] upper(unit) = "VOLTS" -> <<Cmd("RP", "ACQ:DATA:UNITS VOLTS", 0, 0)>>
    [] OTHER                 -> <<>>

(* ------------------------- the environment ----------------------------- *)
\* What the instruments and their channels may do, as sets an action draws
\* from: cfg and io, whether a channel request completes (FALSE: it raises),
\* cfg for the requests of sweep_STS before start_logging and io for those
\* from start_logging on; adv, by
\* how many samples the write pointer has advanced since it was last
\* observed; base, the write pointer at the baseline reading; stat, the
\* trigger-status replies; wpos, whether a write-pointer reply is an integer;
\* neg, the reply to a request for a negative number of samples.
EngineEnv ==
  [cfg  |-> {TRUE},
   io   |-> BOOLEAN,
   adv  |-> 0..(BUFFER_SIZE - 1),
   base |-> 0..(BUFFER_SIZE - 1),
   stat |-> {"TD", "WAIT", "?"},
   wpos |-> {"int", "bad"},
   neg  |-> {"empty", "err"}]

(* ------------------------ exceptions and calls ------------------------- *)
NoResult == [kind |-> "none", data |-> <<>>]

\* An exception leaves sweep_STS (nothing in sts.py or main.py catches it):
\* the call returns nothing and the thread that made it ends.
NoFault == [at |-> "", sent |-> 0]

\* Mutant of Raise: the exception is logged and swallowed where it arises, as
\* exception_handler does, and the statement is run again.
Raise_Swallowed(w, at) ==
  /\ fault' = [fault EXCEPT ![w] = [at |-> at, sent |-> Len(trace'[w])]]
  /\ UNCHANGED <<pc, result>>

Raise(w, at) ==
  /\ pc' = [pc EXCEPT ![w] = "raised"]
  /\ result' = [result EXCEPT ![w] = [kind |-> "raised", data |-> <<>>]]
  /\ fault' = [fault EXCEPT ![w] = [at |-> at, sent |-> Len(trace'[w])]]

\* The commands among cmds delivered to the instruments, appended to the
\* worker's trace.
Deliver(w, cmds) ==
  /\ rp' = RpAfter(rp, cmds)
  /\ tsl' = TslAfter(tsl, cmds)
  /\ trace' = [trace EXCEPT ![w] = @ \o cmds]

(* --------------------- sweep_STS: straight-line part ------------------- *)
\* Lines 98-100: dec = 2048; buffer_string = ""; previous_pointer = 1.  The
\* records kept of the call start empty.
EnterSweepSTS(w) ==
  /\ pc[w] = "L98"
  /\ pc' = [pc EXCEPT ![w] = "L102"]
  /\ buffer_string' = [buffer_string EXCEPT ![w] = <<>>]
  /\ previous_pointer' = [previous_pointer EXCEPT ![w] = 1]
  /\ result' = [result EXCEPT ![w] = NoResult]
  /\ fault' = [fault EXCEPT ![w] = NoFault]
  /\ drains' = [drains EXCEPT ![w] = <<>>]
  /\ stats' = [stats EXCEPT ![w] = <<>>]
  /\ UNCHANGED <<current_pointer, gd_string, params, trace, reads, site, rp, tsl,
                 terminal, wave, data, call, sweep_state, loop_state>>

\* Mutant of Prog: start_logging (line 116) ahead of start_sweep (line 113).
Prog_LoggingBeforeSweep ==
  [L102 |-> [send |-> set_external_trigger(0), decorated |-> TRUE, next |-> "L103"],
   L103 |-> [send |-> set_trigger_output("Stop"), decorated |-> TRUE, next |-> "L104"],
   L104 |-> [send |-> set_trigger_standby(1), decorated |-> TRUE, next |-> "L106"],
   L106 |-> [send |-> <<Cmd("RP", "ACQ:STOP", 0, 0)>>, decorated |-> FALSE, next |-> "L108"],
   L108 |-> [send |-> set_averaging("OFF"), decorated |-> TRUE, next |-> "L109"],
   L109 |-> [send |-> set_decimation(dec), decorated |-> TRUE, next |-> "L110"],
   L110 |-> [send |-> set_data_units("Volts"), decorated |-> TRUE, next |-> "L111"],
   L111 |-> [send |-> <<Cmd("RP", "ACQ:TRIG:LEV", 1, 0)>>, decorated |-> FALSE, next |-> "L113"],
   L113 |-> [send |-> <<Cmd("RP", "ACQ:START", 0, 0)>>, decorated |-> FALSE, next |-> "L116"],
   L116 |-> [send |-> <<Cmd("TSL", ":WAV:SWE", 1, 0)>>, decorated |-> FALSE, next |-> "L119"],
   L122 |-> [send |-> <<Cmd("RP", "ACQ:TRIG CH2_NE", 0, 0)>>, decorated |-> FALSE, next |-> "L124"],
   L124 |-> [send |-> <<Cmd("TSL", ":TRIG:INP:SOFT", 0, 0)>>, decorated |-> FALSE, next |-> "L129"]]

\* sweep_STS lines 102-124 less the baseline reading: for each line, the
\* commands its call writes, whether the call is wrapped by
\* exception_handler (which logs and swallows what it raises), and the line
\* that follows.
Prog ==
  [L102 |-> [send |-> set_external_trigger(0), decorated |-> TRUE, next |-> "L103"],
   L103 |-> [send |-> set_trigger_output("Stop"), decorated |-> TRUE, next |-> "L104"],
   L104 |-> [send |-> set_trigger_standby(1), decorated |-> TRUE, next |-> "L106"],
   L106 |-> [send |-> <<Cmd("RP", "ACQ:STOP", 0, 0)>>, decorated |-> FALSE, next |-> "L108"],
   L108 |-> [send |-> set_averaging("OFF"), decorated |-> TRUE, next |-> "L109"],
   L109 |-> [send |-> set_decimation(dec), decorated |-> TRUE, next |-> "L110"],
   L110 |-> [send |-> set_data_units("Volts"), decorated |-> TRUE, next |-> "L111"],
   L111 |-> [send |-> <<Cmd("RP", "ACQ:TRIG:LEV", 1, 0)>>, decorated |-> FALSE, next |-> "L113"],
   L113 |-> [send |-> <<Cmd("TSL", ":WAV:SWE", 1, 0)>>, decorated |-> FALSE, next |-> "L116"],
   L116 |-> [send |-> <<Cmd("RP", "ACQ:START", 0, 0)>>, decorated |-> FALSE, next |-> "L119"],
   L122 |-> [send |-> <<Cmd("RP", "ACQ:TRIG CH2_NE", 0, 0)>>, decorated |-> FALSE, next |-> "L124"],
   L124 |-> [send |-> <<Cmd("TSL", ":TRIG:INP:SOFT", 0, 0)>>, decorated |-> FALSE, next |-> "L129"]]

\* One line of the straight-line part.
SimpleCmd(w, E) ==
  /\ pc[w] \in DOMAIN Prog
  /\ LET p == Prog[pc[w]] IN
     \E ok \in (IF pc[w] \in {"L116", "L122", "L124"} THEN E.io ELSE E.cfg) :
       IF ok
       THEN /\ Deliver(w, p.send)
            /\ pc' = [pc EXCEPT ![w] = p.next]
            /\ UNCHANGED <<result, fault>>
       ELSE /\ p.send # <<>>
            /\ IF p.decorated
               THEN /\ pc' = [pc EXCEPT ![w] = p.next]
                    /\ UNCHANGED <<result, fault, trace>>
               ELSE /\ UNCHANGED trace
                    /\ Raise(w, pc[w])
            /\ UNCHANGED <<rp, tsl>>
  /\ UNCHANGED <<previous_pointer, current_pointer, gd_string, buffer_string, params,
                 drains, reads, stats, site, terminal, wave, data, call, sweep_state, loop_state>>

\* Lines 119-120: acquisition_start = time.time();
\* previous_pointer = _RP.get_write_pointer().  The buffer has been filled
\* once by now, and the write pointer is wherever the digitizer has got to.
Baseline(w, E) ==
  /\ pc[w] = "L119"
  /\ \E ok \in E.io, kind \in E.wpos, p0 \in E.base :
       IF ok /\ kind = "int"
       THEN /\ rp' = [rp EXCEPT !.total = BUFFER_SIZE + p0]
            /\ previous_pointer' = [previous_pointer EXCEPT ![w] = p0]
            /\ trace' = [trace EXCEPT ![w] = @ \o <<TimeMark("acquisition_start"),
                                                    Cmd("RP", "ACQ:WPOS?", 0, 0)>>]
            /\ pc' = [pc EXCEPT ![w] = "L122"]
            /\ UNCHANGED <<result, fault>>
       ELSE /\ p0 = CHOOSE x \in E.base : TRUE
            /\ ~ok => kind = CHOOSE x \in E.wpos : TRUE
            /\ trace' = [trace EXCEPT ![w] = @ \o <<TimeMark("acquisition_start")>>
                              \o (IF ok THEN <<Cmd("RP", "ACQ:WPOS?", 0, 0)>> ELSE <<>>)]
            /\ Raise(w, "L120")
            /\ UNCHANGED <<rp, previous_pointer>>
  /\ UNCHANGED <<current_pointer, gd_string, buffer_string, params, drains, reads,
                 stats, site, tsl, terminal, wave, data, call, sweep_state, loop_state>>

(* ------------------------ sweep_STS: the poll loop --------------------- *)
\* Mutant of Accumulate: the new text, with its comma, put in front of the
\* text gathered so far.
Accumulate_InFront(text, more) == Txt(",") \o more \o text

\* Lines 66, 68, 135 and 140: buffer_string = buffer_string + "," + more.
Accumulate(text, more) == text \o Txt(",") \o more

\* Mutant of AfterStatus: the loop drains on every reply.
AfterStatus_AlwaysDrain(s) == "G63"

\* Line 129: where the loop goes on a trigger-status reply: "TD" leaves it
\* for line 130, anything else drains (get_data, line 63).
AfterStatus(s) == IF s = "TD" THEN "L130" ELSE "G63"

\* Trigger-status polls of the call so far.
NPolls(w) == Len(stats[w])

\* Line 129: _RP.get_trigger_state() == "TD".  "TD" goes on to line 130; any
\* other reply goes on to the drain of line 134.
Poll(w, E) ==
  /\ pc[w] = "L129"
  /\ \E ok \in E.io, s \in E.stat :
       IF ok
       THEN /\ s # "TD" => NPolls(w) < MaxPolls
            /\ trace' = [trace EXCEPT ![w] = Append(@, Cmd("RP", "ACQ:TRIG:STAT?", 0, 0))]
            /\ stats' = [stats EXCEPT ![w] = Append(@, s)]
            /\ pc' = [pc EXCEPT ![w] = AfterStatus(s)]
            /\ site' = [site EXCEPT ![w] = IF AfterStatus(s) = "G63" THEN "loop" ELSE ""]
            /\ UNCHANGED <<result, fault>>
       ELSE /\ s = CHOOSE x \in E.stat : TRUE
            /\ UNCHANGED <<trace, stats, site>>
            /\ Raise(w, "L129")
  /\ UNCHANGED <<previous_pointer, current_pointer, gd_string, buffer_string, params,
                 drains, reads, rp, tsl, terminal, wave, data, call, sweep_state, loop_state>>

\* Lines 130-132 and the call of line 139: _RP.stop_logging();
\* acquisition_end = time.time(); break.  The digitizer has written adv more
\* samples by the time it stops.
StopLogging(w, E) ==
  /\ pc[w] = "L130"
  /\ \E ok \in E.io, d \in E.adv :
       IF ok
       THEN /\ rp' = [rp EXCEPT !.logging = FALSE,
                                !.total = IF rp.logging THEN @ + d ELSE @]
            /\ rp.logging \/ d = CHOOSE x \in E.adv : TRUE
            /\ trace' = [trace EXCEPT ![w] = @ \o <<Cmd("RP", "ACQ:STOP", 0, 0),
                                                    TimeMark("acquisition_end")>>]
            /\ pc' = [pc EXCEPT ![w] = "G63"]
            /\ site' = [site EXCEPT ![w] = "tail"]
            /\ UNCHANGED <<result, fault>>
       ELSE /\ d = CHOOSE x \in E.adv : TRUE
            /\ UNCHANGED <<rp, trace, site>>
            /\ Raise(w, "L130")
  /\ UNCHANGED <<previous_pointer, current_pointer, gd_string, buffer_string, params,
                 drains, reads, stats, tsl, terminal, wave, data, call, sweep_state, loop_state>>

(* ------------------------------ get_data ------------------------------- *)
\* Mutant of WrapReads: the second segment taken from offset 0.
WrapReads_FromZero(prev, cur) == << <<prev, BUFFER_SIZE - prev>>, <<0, cur>> >>

\* Line 66: the two requests of a wrapped drain, as <<start, N>>.
WrapReads(prev, cur) == << <<prev, BUFFER_SIZE - prev>>, <<1, cur - 1>> >>

\* Mutant of PlainReads: the drain starts one offset late.
PlainReads_OneLate(prev, cur) == << <<prev + 1, cur - prev>> >>

\* Line 68: the request of a drain that has not wrapped.
PlainReads(prev, cur) == << <<prev, cur - prev>> >>

\* Lines 65-68: the requests get_data issues, in order.
Requests(prev, cur) ==
  IF cur < prev THEN WrapReads(prev, cur) ELSE PlainReads(prev, cur)

\* Lines 62-63: buffer_string = ""; current_pointer = _RP.get_write_pointer().
\* While the digitizer is logging, the write pointer has advanced by adv
\* since it was last observed.
GetWritePointer(w, E) ==
  /\ pc[w] = "G63"
  /\ \E ok \in E.io, kind \in E.wpos, d \in E.adv :
       IF ok /\ kind = "int"
       THEN /\ rp.logging \/ d = CHOOSE x \in E.adv : TRUE
            /\ rp' = [rp EXCEPT !.total = IF rp.logging THEN @ + d ELSE @]
            /\ current_pointer' = [current_pointer EXCEPT ![w] = rp'.total % BUFFER_SIZE]
            /\ trace' = [trace EXCEPT ![w] = Append(@, Cmd("RP", "ACQ:WPOS?", 0, 0))]
            /\ gd_string' = [gd_string EXCEPT ![w] = <<>>]
            /\ reads' = [reads EXCEPT ![w] = <<>>]
            /\ pc' = [pc EXCEPT ![w] = "G65"]
            /\ UNCHANGED <<result, fault>>
       ELSE /\ d = CHOOSE x \in E.adv : TRUE
            /\ ~ok => kind = CHOOSE x \in E.wpos : TRUE
            /\ trace' = [trace EXCEPT ![w] =
                           IF ok THEN Append(@, Cmd("RP", "ACQ:WPOS?", 0, 0)) ELSE @]
            /\ Raise(w, "G63")
            /\ UNCHANGED <<rp, current_pointer, gd_string, reads>>
  /\ UNCHANGED <<previous_pointer, buffer_string, params, drains, stats, site, tsl,
                 terminal, wave, data, call, sweep_state, loop_state>>

\* Lines 66 and 68, one _RP.get_data_N call at a time:
\* buffer_string = buffer_string + "," + _RP.get_data_N("SOUR1", start, N).
GetDataN(w, E) ==
  /\ pc[w] = "G65"
  /\ LET reqs == Requests(previous_pointer[w], current_pointer[w])
         k    == Len(reads[w]) + 1
     IN /\ k <= Len(reqs)
        /\ \E ok \in E.io, neg \in E.neg :
             LET start == reqs[k][1]
                 N     == reqs[k][2]
                 samples == IF N >= 0 THEN Segment(start, N, rp.total) ELSE <<>>
                 reply == IF N < 0 /\ neg = "err" THEN ErrReply
                          ELSE Reply(samples, terminal)
             IN IF ok
                THEN /\ N >= 0 => neg = CHOOSE x \in E.neg : TRUE
                     /\ trace' = [trace EXCEPT ![w] =
                                    Append(@, Cmd("RP", "ACQ:SOUR1:DATA:STA:N?", start, N))]
                     /\ reads' = [reads EXCEPT ![w] =
                                    Append(@, [start |-> start, n |-> N, samples |-> samples,
                                               reply |-> reply])]
                     /\ gd_string' = [gd_string EXCEPT ![w] = Accumulate(@, reply)]
                     /\ UNCHANGED <<pc, result, fault>>
                ELSE /\ neg = CHOOSE x \in E.neg : TRUE
                     /\ UNCHANGED <<trace, reads, gd_string>>
                     /\ Raise(w, "G66")
  /\ UNCHANGED <<previous_pointer, current_pointer, buffer_string, params, drains,
                 stats, site, rp, tsl, terminal, wave, data, call, sweep_state, loop_state>>

\* Line 70 and its call sites, lines 134-135 and 139-140:
\* return buffer_string[1:], current_pointer;
\* buffer_string_temp, previous_pointer = get_data(previous_pointer);
\* buffer_string = buffer_string + "," + buffer_string_temp.
GetDataReturn(w) ==
  /\ pc[w] = "G65"
  /\ Len(reads[w]) = Len(Requests(previous_pointer[w], current_pointer[w]))
  /\ LET buffer_string_temp == DropFirst(gd_string[w]) IN
       /\ previous_pointer' = [previous_pointer EXCEPT ![w] = current_pointer[w]]
       /\ buffer_string' = [buffer_string EXCEPT ![w] = Accumulate(@, buffer_string_temp)]
       /\ drains' = [drains EXCEPT ![w] =
                       Append(@, [prev |-> previous_pointer[w], cur |-> current_pointer[w],
                                  reads |-> reads[w], ret |-> buffer_string_temp,
                                  site |-> site[w]])]
  /\ pc' = [pc EXCEPT ![w] = IF site[w] = "loop" THEN "L129" ELSE "L142"]
  /\ site' = [site EXCEPT ![w] = ""]
  /\ reads' = [reads EXCEPT ![w] = <<>>]
  /\ gd_string' = [gd_string EXCEPT ![w] = <<>>]
  /\ UNCHANGED <<current_pointer, params, result, trace, stats, fault, rp, tsl,
                 terminal, wave, data, call, sweep_state, loop_state>>

(* ------------------------ sweep_STS: the result ------------------------ *)
\* Lines 142-144: buffer_string[1:].strip('{}\n\r').replace("  ", "")
\* .replace('{', "").replace('}', "").split(',').
Tokens(text) ==
  Split(Remove(Remove(Strip(DropFirst(text), {"{", "}"}), "{"), "}"), <<>>)

\* Line 145: the tokens handed to float: buffer_string[:-1].
Converted(text) == DropLast(Tokens(text))

\* Line 145: list(map(float, ...)), where every token is a number.
Floats(toks) == [i \in 1..Len(toks) |-> toks[i][1].v]

\* Lines 142-145: data, or ValueError from float.
ParseData(w) ==
  /\ pc[w] = "L142"
  /\ LET toks == Converted(buffer_string[w]) IN
       IF \A i \in 1..Len(toks) : IsFloat(toks[i])
       THEN /\ result' = [result EXCEPT ![w] = [kind |-> "parsed", data |-> Floats(toks)]]
            /\ pc' = [pc EXCEPT ![w] = "L146"]
            /\ UNCHANGED <<fault, trace>>
       ELSE /\ UNCHANGED trace
            /\ Raise(w, "L145")
  /\ UNCHANGED <<previous_pointer, current_pointer, gd_string, buffer_string, params,
                 drains, reads, stats, site, rp, tsl, terminal, wave, data, call, sweep_state,
                 loop_state>>

\* Lines 146-148: _STS.stop_sweep(); return data, acquisition_time.
StopSweep(w, E) ==
  /\ pc[w] = "L146"
  /\ \E ok \in E.io :
       IF ok
       THEN /\ Deliver(w, <<Cmd("TSL", ":WAV:SWE", 0, 0)>>)
            /\ result' = [result EXCEPT ![w] = [kind |-> "returned", data |-> @.data]]
            /\ pc' = [pc EXCEPT ![w] = "L148"]
            /\ UNCHANGED fault
       ELSE /\ UNCHANGED <<rp, tsl, trace>>
            /\ Raise(w, "L146")
  /\ UNCHANGED <<previous_pointer, current_pointer, gd_string, buffer_string, params,
                 drains, reads, stats, site, terminal, wave, data, call, sweep_state, loop_state>>

(* --------------------------- one sweep cycle --------------------------- *)
\* The instruments as the constructors of sts.py lines 30-35 leave them:
\* ACQ.__init__, TSL.__init__, STS.__init__ and TRIGGER.__init__.  A value of
\* -1 is a setting no constructor writes.
RpInit ==
  RpAfter([logging |-> FALSE, total |-> BUFFER_SIZE, avg |-> "default", dec |-> -1,
           units |-> "default", level |-> -1, trig |-> "default", dly |-> -1],
          <<Cmd("RP", "ACQ:RST", 0, 0)>> \o set_averaging("OFF") \o set_decimation(2048)
            \o <<Cmd("RP", "ACQ:TRIG:DLY", -8192, 0)>> \o set_data_units("VOLTS")
            \o <<Cmd("RP", "ACQ:TRIG:LEV", 1, 0)>>)

TslInit ==
  TslAfter([swe |-> 0, ext |-> -1, stan |-> -1, act |-> -1, outp |-> -1, star |-> -1,
            stop |-> -1, spe |-> -1, pow |-> -1, wav |-> -1, diode |-> -1,
            step |-> -1, mod |-> -1],
           set_sweep_mode(1) \o set_start_wavelength(1500) \o set_stop_wavelength(1600)
             \o set_sweep_step(1)
             \o set_external_trigger(1) \o set_trigger_edge(0)
             \o set_trigger_output("Stop"))

\* sweep_parameters_class: the dataclass's fields in the order it declares
\* them (the order of its positional arguments); the speed is in tenths of
\* nm/s, the wavelengths in nm, the power in mW.
sweep_parameters_class(speed10, power, start_wavelength, stop_wavelength) ==
  [speed |-> speed10, power |-> power, start_wavelength |-> start_wavelength,
   stop_wavelength |-> stop_wavelength]

\* The dataclass's defaults, with a speed and a power in range.
DefaultParameters == sweep_parameters_class(10, 0, 1500, 1600)

\* No call made yet.
NoCall == [k |-> 0]

InitCommon ==
  /\ previous_pointer = [w \in Workers |-> 1]
  /\ current_pointer = [w \in Workers |-> 0]
  /\ gd_string = [w \in Workers |-> <<>>]
  /\ buffer_string = [w \in Workers |-> <<>>]
  /\ result = [w \in Workers |-> NoResult]
  /\ trace = [w \in Workers |-> <<>>]
  /\ drains = [w \in Workers |-> <<>>]
  /\ reads = [w \in Workers |-> <<>>]
  /\ stats = [w \in Workers |-> <<>>]
  /\ fault = [w \in Workers |-> NoFault]
  /\ site = [w \in Workers |-> ""]
  /\ rp = RpInit
  /\ tsl = TslInit
  /\ terminal \in BOOLEAN
  /\ sweep_state = FALSE
  /\ loop_state = FALSE
  /\ call = NoCall
  /\ wave = <<>>
  /\ data = <<>>

\* One call of sweep_STS, made by worker 1.
Init ==
  /\ InitCommon
  /\ pc = [w \in Workers |-> IF w = 1 THEN "L98" ELSE "idle"]
  /\ params = [w \in Workers |-> DefaultParameters]

Next ==
  \/ EnterSweepSTS(1)
  \/ SimpleCmd(1, EngineEnv)
  \/ Baseline(1, EngineEnv)
  \/ Poll(1, EngineEnv)
  \/ StopLogging(1, EngineEnv)
  \/ GetWritePointer(1, EngineEnv)
  \/ GetDataN(1, EngineEnv)
  \/ GetDataReturn(1)
  \/ ParseData(1)
  \/ StopSweep(1, EngineEnv)

Spec == Init /\ [][Next]_vars

(* ------------------- a sweep cycle that is let to run ------------------ *)
\* The instruments answering every request: each completes, the write
\* pointer is an integer, a trigger status is "TD" or the digitizer's reply
\* while it waits, and a request for no samples is answered with an empty
\* list.
LiveEnv ==
  [cfg  |-> {TRUE},
   io   |-> {TRUE},
   adv  |-> 0..(BUFFER_SIZE - 1),
   base |-> 0..(BUFFER_SIZE - 1),
   stat |-> {"TD", "WAIT"},
   wpos |-> {"int"},
   neg  |-> {"empty"}]

NextLive ==
  \/ EnterSweepSTS(1)
  \/ SimpleCmd(1, LiveEnv)
  \/ Baseline(1, LiveEnv)
  \/ Poll(1, LiveEnv)
  \/ StopLogging(1, LiveEnv)
  \/ GetWritePointer(1, LiveEnv)
  \/ GetDataN(1, LiveEnv)
  \/ GetDataReturn(1)
  \/ ParseData(1)
  \/ StopSweep(1, LiveEnv)

\* The thread running sweep_STS is scheduled as long as it has a statement to
\* run, and "TD" is reported after MaxPolls other replies at the latest.
SpecLive == Init /\ [][NextLive]_vars /\ WF_vars(NextLive)

(* ------------------------ set_sweep_parameters ------------------------- *)
\* sts.py lines 81-84: for each line, the commands its setter writes for the
\* worker's parameters, and the line that follows.  Every one of the four
\* setters is wrapped by exception_handler.
ParamProg(w) ==
  [P81 |-> [send |-> set_start_wavelength(params[w].start_wavelength), next |-> "P82"],
   P82 |-> [send |-> set_stop_wavelength(params[w].stop_wavelength), next |-> "P83"],
   P83 |-> [send |-> set_sweep_speed(params[w].speed), next |-> "P84"],
   P84 |-> [send |-> set_power(params[w].power), next |-> "L98"]]

\* One line of set_sweep_parameters.  A ValueError of the range check and an
\* exception of the channel are both logged and swallowed by the wrapper,
\* and the next line runs.
SetSweepParameter(w, E) ==
  /\ pc[w] \in DOMAIN ParamProg(w)
  /\ LET p == ParamProg(w)[pc[w]] IN
     \E ok \in E.cfg :
       /\ ~ok => p.send # <<>>
       /\ IF ok THEN Deliver(w, p.send) ELSE UNCHANGED <<rp, tsl, trace>>
       /\ pc' = [pc EXCEPT ![w] = p.next]
  /\ UNCHANGED <<previous_pointer, current_pointer, gd_string, buffer_string, params,
                 result, drains, reads, stats, fault, site, terminal, wave, data, call, sweep_state,
                 loop_state>>

\* Parameters a caller of set_sweep_parameters may pass: each field in range,
\* on a limit of its range, and out of it.
ParamSet ==
  {sweep_parameters_class(sp, pw, st, en) :
     sp \in {4, 5, 2000, 2001}, pw \in {13, 14},
     st \in {1479, 1480, 1500}, en \in {1600, 1640, 1641}}

ParamEnv == [cfg |-> BOOLEAN]

\* One call of set_sweep_parameters, made by worker 1.
InitParams ==
  /\ InitCommon
  /\ pc = [w \in Workers |-> IF w = 1 THEN "P81" ELSE "idle"]
  /\ params \in {[w \in Workers |-> IF w = 1 THEN q ELSE DefaultParameters] :
                   q \in ParamSet}

NextParams == SetSweepParameter(1, ParamEnv)

SpecParams == InitParams /\ [][NextParams]_vars

(* ----------------------- calls of the setters -------------------------- *)
\* A call of a setter: the method, and its argument as a number (n) or as a
\* string (s).
SetterCall(fn, n, s) == [fn |-> fn, n |-> n, s |-> s]

\* The calls a client may make: every range-checked setter of tsl.py and
\* redpitaya.py, with arguments inside, on the limits of, and outside its range.
SetterCalls ==
  {SetterCall(fn, n, "") :
     fn \in {"set_wavelength", "set_start_wavelength", "set_stop_wavelength"},
     n \in {1479, 1480, 1641}}
  \cup {SetterCall("set_sweep_speed", n, "") : n \in {4, 5, 2000, 2001}}
  \cup {SetterCall("set_sweep_step", n, "") : n \in {0, 1, 1600000, 1600001}}
  \cup {SetterCall("set_power", n, "") : n \in {0, 13, 14}}
  \cup {SetterCall(fn, n, "") :
          fn \in {"set_diode_state", "set_external_trigger", "set_trigger_edge",
                  "set_trigger_standby"},
          n \in {0, 1, 2}}
  \cup {SetterCall("set_sweep_mode", n, "") : n \in {-1, 0, 3, 4}}
  \cup {SetterCall("set_trigger_output", 0, s) : s \in {"None", "Stop", "start", "Never", ""}}
  \cup {SetterCall("set_averaging", 0, s) : s \in {"ON", "off", "auto", ""}}
  \cup {SetterCall("set_data_units", 0, s) : s \in {"RAW", "Volts", "mV", ""}}
  \cup {SetterCall("set_decimation", n, "") :
          n \in {-2048, -2, -1, 0, 1, 2, 3, 6, 2047, 2048}}

\* The commands the called method writes when its check passes.
SetterCommands(c) ==
  CASE c.fn = "set_wavelength"       -> set_wavelength(c.n)
    [] c.fn = "set_start_wavelength" -> set_start_wavelength(c.n)
    [] c.fn = "set_stop_wavelength"  -> set_stop_wavelength(c.n)
    [] c.fn = "set_sweep_speed"      -> set_sweep_speed(c.n)
    [] c.fn = "set_sweep_step"       -> set_sweep_step(c.n)
    [] c.fn = "set_power"            -> set_power(c.n)
    [] c.fn = "set_diode_state"      -> set_diode_state(c.n)
    [] c.fn = "set_external_trigger" -> set_external_trigger(c.n)
    [] c.fn = "set_trigger_edge"     -> set_trigger_edge(c.n)
    [] c.fn = "set_trigger_standby"  -> set_trigger_standby(c.n)
    [] c.fn = "set_sweep_mode"       -> set_sweep_mode(c.n)
    [] c.fn = "set_trigger_output"   -> set_trigger_output(c.s)
    [] c.fn = "set_averaging"        -> set_averaging(c.s)
    [] c.fn = "set_data_units"       -> set_data_units(c.s)
    [] c.fn = "set_decimation"       -> set_decimation(c.n)

\* What leaves the method's own try/except: every method re-raises the
\* ValueError of its check, except set_averaging, whose handler (redpitaya.py
\* lines 89-91) adds a note and does not raise.
Escapes(fn, exc) == IF fn = "set_averaging" /\ exc = "ValueError" THEN "" ELSE exc

\* exception_handler's wrapper (error_handling.py lines 8-13): the exception,
\* if any, is logged; the wrapper returns None in every case.
exception_handler(exc) == [logged |-> exc, returned |-> "None"]

SetterEnv == [cfg |-> BOOLEAN]

\* A client calls a setter.  The call record keeps the instruments and the
\* number of commands sent as they were before the call.
CallSetter(E) ==
  /\ pc[1] = "client"
  /\ call.k < MaxCalls
  /\ \E c \in SetterCalls, ok \in E.cfg :
       LET cmds == SetterCommands(c)
           exc == IF cmds = <<>> THEN "ValueError" ELSE IF ok THEN "" ELSE "transport"
           out == exception_handler(Escapes(c.fn, exc))
       IN /\ ~ok => cmds # <<>>
          /\ Deliver(1, IF exc = "" THEN cmds ELSE <<>>)
          /\ call' = [k |-> call.k + 1, fn |-> c.fn, n |-> c.n, s |-> c.s,
                      raised |-> exc, logged |-> out.logged, returned |-> out.returned,
                      rp0 |-> rp, tsl0 |-> tsl, sent0 |-> Len(trace[1])]
  /\ UNCHANGED <<pc, previous_pointer, current_pointer, gd_string, buffer_string,
                 params, result, drains, reads, stats, fault, site, terminal, wave, data,
                 sweep_state, loop_state>>

InitSetters ==
  /\ InitCommon
  /\ pc = [w \in Workers |-> IF w = 1 THEN "client" ELSE "idle"]
  /\ params = [w \in Workers |-> DefaultParameters]

NextSetters == CallSetter(SetterEnv)

SpecSetters == InitSetters /\ [][NextSetters]_vars

(* ----------------------------- plot_data ------------------------------- *)
\* Numbers of plot_data are fractions num/den with den > 0, so that the
\* time axis and the division by the speed are exact.
R(x) == [num |-> x, den |-> 1]
RAdd(a, b) == [num |-> a.num * b.den + b.num * a.den, den |-> a.den * b.den]
RSub(a, b) == [num |-> a.num * b.den - b.num * a.den, den |-> a.den * b.den]
RMul(a, b) == [num |-> a.num * b.num, den |-> a.den * b.den]
\* a / b for b # 0.
RDiv(a, b) ==
  IF b.num > 0 THEN [num |-> a.num * b.den, den |-> a.den * b.num]
  ELSE [num |-> -(a.num * b.den), den |-> -(a.den * b.num)]
RGeq(a, b) == a.num * b.den >= b.num * a.den
REq(a, b) == a.num * b.den = b.num * a.den

\* np.linspace(0, stop, n): n values from 0 to stop, evenly spaced; the one
\* value for n = 1 is 0.
linspace(stop, n) ==
  [i \in 1..n |-> IF n = 1 THEN R(0) ELSE [num |-> (i - 1) * stop, den |-> n - 1]]

\* Mutant of Trailing: the leading samples taken.
Trailing_Leading(y, m) == SubSeq(y, 1, m)

\* y[-m:] for 1 <= m <= len(y).
Trailing(y, m) == SubSeq(y, Len(y) - m + 1, Len(y))

\* plot_data(y_data, acquisition_time, params), lines 85-93.  params is a
\* list [minwave, maxwave, speed, power] as the docstring has it
\* (kind "list", the speed in nm/s), or another object that cannot be indexed
\* (kind "object").  The result is the exception raised, if any, and the
\* globals wave and data the call assigns when it raises nothing.
plot_data(y_data, acquisition_time, q) ==
  LET n == Len(y_data)
      t == linspace(acquisition_time, n)
      NoPlot(exc) == [outcome |-> exc, wave |-> <<>>, data |-> <<>>]
  IN IF q.kind # "list" THEN NoPlot("TypeError")
     ELSE IF n > 0 /\ q.speed = 0 THEN NoPlot("ZeroDivisionError")
     ELSE LET from == RSub(R(acquisition_time),
                           RDiv(R(q.maxwave - q.minwave), R(q.speed)))
              kept == SelectSeq(t, LAMBDA val : RGeq(val, from))
          IN IF kept = <<>> THEN NoPlot("IndexError")
             ELSE LET line92 == [j \in 1..Len(kept) |->
                                   RAdd(R(q.maxwave),
                                        RMul(R(q.speed), RSub(kept[j], kept[Len(kept)])))]
                  IN [outcome |-> "returned", wave |-> line92,
                      data |-> Trailing(y_data, Len(line92))]

\* The calls a client may make of plot_data: streams of 0 to MaxSamples
\* samples (the samples numbered in order), whole acquisition times, and
\* parameters on both sides of every test the function makes.
PlotCalls ==
  {[n |-> n, acquisition_time |-> T,
    q |-> [kind |-> kind, minwave |-> lo, maxwave |-> hi, speed |-> v]] :
     n \in 0..MaxSamples, T \in {0, 1, 2}, kind \in {"list", "object"},
     lo \in {1500, 1600}, hi \in {1500, 1600}, v \in {0, 50, 100, 200}}

\* A client calls plot_data, which assigns the globals wave and data (lines
\* 92-93) when nothing is raised before.
CallPlotData ==
  /\ pc[1] = "client"
  /\ call.k = 0
  /\ \E c \in PlotCalls :
       LET y_data == [i \in 1..c.n |-> i]
           out == plot_data(y_data, c.acquisition_time, c.q)
       IN /\ call' = [k |-> 1, fn |-> "plot_data", y_data |-> y_data,
                      acquisition_time |-> c.acquisition_time, q |-> c.q,
                      outcome |-> out.outcome, wave |-> out.wave, data |-> out.data]
          /\ wave' = IF out.outcome = "returned" THEN out.wave ELSE wave
          /\ data' = IF out.outcome = "returned" THEN out.data ELSE data
  /\ UNCHANGED <<pc, previous_pointer, current_pointer, gd_string, buffer_string,
                 params, result, trace, drains, reads, stats, fault, site, rp, tsl,
                 terminal, sweep_state, loop_state>>

InitPlot ==
  /\ InitCommon
  /\ pc = [w \in Workers |-> IF w = 1 THEN "client" ELSE "idle"]
  /\ params = [w \in Workers |-> DefaultParameters]

NextPlot == CallPlotData

SpecPlot == InitPlot /\ [][NextPlot]_vars



(* ---------------------- acquisition configuration ---------------------- *)
\* The commands of ACQ.__init__ (redpitaya.py lines 34-39): redpitaya_reset,
\* then the acquisition configuration; and those of the configuration block
\* of sweep_STS (sts.py lines 106-111).
ConfigurationCommands(fn) ==
  IF fn = "ACQ.__init__"
  THEN <<Cmd("RP", "ACQ:RST", 0, 0)>> \o set_averaging("OFF") \o set_decimation(2048)
         \o <<Cmd("RP", "ACQ:TRIG:DLY", -8192, 0)>> \o set_data_units("VOLTS")
         \o <<Cmd("RP", "ACQ:TRIG:LEV", 1, 0)>>
  ELSE Prog.L106.send \o Prog.L108.send \o Prog.L109.send \o Prog.L110.send
         \o Prog.L111.send

\* The digitizer commands of the rest of a sweep cycle, sts.py lines 116-130:
\* start_logging, set_trigger_state("CH2_NE"), stop_logging.
CycleCommands == Prog.L116.send \o Prog.L122.send \o <<Cmd("RP", "ACQ:STOP", 0, 0)>>

\* The settings the acquisition configuration writes.
Configuration(r) ==
  [avg |-> r.avg, dec |-> r.dec, dly |-> r.dly, units |-> r.units, level |-> r.level]

\* The states an earlier user may have left the digitizer in.
RpStates ==
  [logging : BOOLEAN, total : {BUFFER_SIZE}, avg : {"default", "ON", "OFF"},
   dec : {-1, 1, 2048}, units : {"default", "RAW", "VOLTS"}, level : {-1, 0, 1},
   trig : {"default", "CH2_NE"}, dly : {-1, -8192}]

\* The configuration is applied, every request completing.  The call record
\* counts the applications made (n) and those of the same block made in a row
\* (k), and keeps the digitizer as the first of these left it.
ApplyConfiguration ==
  /\ pc[1] = "client"
  /\ IF call.k = 0 THEN TRUE ELSE call.n < MaxCalls
  /\ \E fn \in {"ACQ.__init__", "sweep_STS"} :
       /\ Deliver(1, ConfigurationCommands(fn))
       /\ call' = IF call.k > 0 /\ call.fn = fn
                  THEN [call EXCEPT !.k = @ + 1, !.n = @ + 1]
                  ELSE [k |-> 1, n |-> IF call.k = 0 THEN 1 ELSE call.n + 1,
                        fn |-> fn, once |-> rp', cycled |-> FALSE]
  /\ UNCHANGED <<pc, previous_pointer, current_pointer, gd_string, buffer_string,
                 params, result, drains, reads, stats, fault, site, terminal, wave, data,
                 sweep_state, loop_state>>

\* The rest of the cycle that follows the configuration block of sweep_STS.
RestOfCycle ==
  /\ pc[1] = "client"
  /\ call.k > 0
  /\ call.fn = "sweep_STS"
  /\ ~call.cycled
  /\ Deliver(1, CycleCommands)
  /\ call' = [call EXCEPT !.cycled = TRUE]
  /\ UNCHANGED <<pc, previous_pointer, current_pointer, gd_string, buffer_string,
                 params, result, drains, reads, stats, fault, site, terminal, wave, data,
                 sweep_state, loop_state>>

InitConfig ==
  /\ previous_pointer = [w \in Workers |-> 1]
  /\ current_pointer = [w \in Workers |-> 0]
  /\ gd_string = [w \in Workers |-> <<>>]
  /\ buffer_string = [w \in Workers |-> <<>>]
  /\ result = [w \in Workers |-> NoResult]
  /\ trace = [w \in Workers |-> <<>>]
  /\ drains = [w \in Workers |-> <<>>]
  /\ reads = [w \in Workers |-> <<>>]
  /\ stats = [w \in Workers |-> <<>>]
  /\ fault = [w \in Workers |-> NoFault]
  /\ site = [w \in Workers |-> ""]
  /\ rp \in RpStates
  /\ tsl = TslInit
  /\ terminal = FALSE
  /\ sweep_state = FALSE
  /\ loop_state = FALSE
  /\ call = NoCall
  /\ wave = <<>>
  /\ data = <<>>
  /\ pc = [w \in Workers |-> IF w = 1 THEN "client" ELSE "idle"]
  /\ params = [w \in Workers |-> DefaultParameters]

NextConfig == ApplyConfiguration \/ RestOfCycle

SpecConfig == InitConfig /\ [][NextConfig]_vars

(* ------------------------------ main.py -------------------------------- *)
\* The environment of the sweeps the window starts: the channels complete
\* every request and the trigger has fired by the first poll.  alias is
\* whether the name sts.TSL770 of main.py line 42 resolves: sts.py binds no
\* TSL770 (it imports the module as tsl), so the line raises AttributeError
\* unless something else has bound the name.
GuiEnv ==
  [cfg   |-> {TRUE},
   io    |-> {TRUE},
   adv   |-> {1},
   base  |-> {0},
   stat  |-> {"TD"},
   wpos  |-> {"int"},
   neg   |-> {"empty"},
   alias |-> {"bound", "unbound"}]

\* The slider values a click may find (main.py lines 175-207): start and stop
\* wavelength in nm, speed in tenths of nm/s, power in mW.
GuiValues ==
  {[st |-> 1500, en |-> 1600, sp10 |-> 1000, pw |-> 3]}

\* A thread ends with an exception raised outside sweep_STS.
ThreadDies(w, at) ==
  /\ pc' = [pc EXCEPT ![w] = "raised"]
  /\ fault' = [fault EXCEPT ![w] = [at |-> at, sent |-> Len(trace[w])]]

\* Event loop, case "sweepButton" (lines 290-299): if not sweep_state, start
\* a thread running sweep_loop with the window's values.
ClickSweep ==
  /\ ~sweep_state
  /\ \E w \in Workers, values \in GuiValues :
       /\ pc[w] = "idle"
       /\ \A v \in Workers : v < w => pc[v] # "idle"
       /\ pc' = [pc EXCEPT ![w] = "S62"]
       /\ params' = [params EXCEPT ![w].values = values]
  /\ UNCHANGED <<previous_pointer, current_pointer, gd_string, buffer_string, result,
                 trace, drains, reads, stats, fault, site, rp, tsl, terminal, wave, data, call,
                 sweep_state, loop_state>>

\* Event loop, case "loopButton" (lines 301-304).
ClickLoop ==
  /\ loop_state' = ~loop_state
  /\ UNCHANGED <<pc, previous_pointer, current_pointer, gd_string, buffer_string,
                 params, result, trace, drains, reads, stats, fault, site, rp, tsl,
                 terminal, wave, data, call, sweep_state>>

\* sweep_loop lines 61-64: sweep_state = True; sleep; call sweep_plot.
SweepLoopTop(w) ==
  /\ pc[w] = "S62"
  /\ sweep_state' = TRUE
  /\ pc' = [pc EXCEPT ![w] = "P38"]
  /\ UNCHANGED <<previous_pointer, current_pointer, gd_string, buffer_string, params,
                 result, trace, drains, reads, stats, fault, site, rp, tsl, terminal, wave, data, call,
                 loop_state>>

\* sweep_plot lines 37-40: sweep_state = True.
SweepPlotBegin(w) ==
  /\ pc[w] = "P38"
  /\ sweep_state' = TRUE
  /\ pc' = [pc EXCEPT ![w] = "P42"]
  /\ UNCHANGED <<previous_pointer, current_pointer, gd_string, buffer_string, params,
                 result, trace, drains, reads, stats, fault, site, rp, tsl, terminal, wave, data, call,
                 loop_state>>

\* sweep_plot lines 42-49: params = sts.TSL770.sweep_parameters_class(
\* values["stSlider"], values["enSlider"], values["spSlider"],
\* values["pwSlider"]), the four values passed by position; then the call of
\* set_sweep_parameters.  A start wavelength handed over as a speed is so
\* many nm/s; a speed handed over as a wavelength is so many nm.
SweepPlotParams(w, E) ==
  /\ pc[w] = "P42"
  /\ \E alias \in E.alias :
       IF alias = "bound"
       THEN /\ params' = [params EXCEPT ![w] =
                 [values |-> @.values] @@
                 sweep_parameters_class(10 * @.values.st, @.values.en,
                                        @.values.sp10 \div 10, @.values.pw)]
            /\ trace' = [trace EXCEPT ![w] = <<>>]
            /\ pc' = [pc EXCEPT ![w] = "P81"]
            /\ UNCHANGED fault
       ELSE /\ ThreadDies(w, "P42")
            /\ UNCHANGED <<params, trace>>
  /\ UNCHANGED <<previous_pointer, current_pointer, gd_string, buffer_string, result,
                 drains, reads, stats, site, rp, tsl, terminal, wave, data, call, sweep_state,
                 loop_state>>

\* sweep_plot lines 52-54: update_figure(figure_canvas_agg, data,
\* acquisition_time, params, fig) calls plot_data with params, the dataclass
\* object, which plot_data indexes (params[1], line 91 or 92): TypeError, and
\* the thread ends before line 56.
UpdateFigure(w) ==
  /\ pc[w] = "L148"
  /\ ThreadDies(w, "P54")
  /\ UNCHANGED <<previous_pointer, current_pointer, gd_string, buffer_string, params,
                 result, trace, drains, reads, stats, site, rp, tsl, terminal, wave, data, call,
                 sweep_state, loop_state>>

\* The window and the threads it starts.
InitGui ==
  /\ InitCommon
  /\ pc = [w \in Workers |-> "idle"]
  /\ params = [w \in Workers |-> DefaultParameters @@ [values |-> [st |-> 0, en |-> 0, sp10 |-> 0, pw |-> 0]]]

NextGui ==
  \/ ClickSweep
  \/ ClickLoop
  \/ \E w \in Workers :
       \/ SweepLoopTop(w)
       \/ SweepPlotBegin(w)
       \/ SweepPlotParams(w, GuiEnv)
       \/ SetSweepParameter(w, GuiEnv)
       \/ EnterSweepSTS(w)
       \/ SimpleCmd(w, GuiEnv)
       \/ Baseline(w, GuiEnv)
       \/ Poll(w, GuiEnv)
       \/ StopLogging(w, GuiEnv)
       \/ GetWritePointer(w, GuiEnv)
       \/ GetDataN(w, GuiEnv)
       \/ GetDataReturn(w)
       \/ ParseData(w)
       \/ StopSweep(w, GuiEnv)
       \/ UpdateFigure(w)

SpecGui == InitGui /\ [][NextGui]_vars

(* ------------------- main.py: plot_data and saveButton ------------------ *)
\* Before a worker thread's first call of plot_data: nothing plotted, nothing
\* saved.
NoPlotCall ==
  [k |-> 0, fn |-> "plot_data", outcome |-> "", wave |-> <<>>, data |-> <<>>,
   pairs |-> {<< <<>>, <<>> >>}, saved |-> <<>>]

\* plot_data lines 85-92, on a worker thread, called as it documents its
\* parameters: the wavelengths are computed and assigned to the global wave,
\* unless an exception ends the thread first.  The call record keeps the
\* spectrum of the call (wave and data as lines 92-93 compute them) and the
\* spectra of the calls so far (pairs).
PlotDataWave(w) ==
  /\ pc[w] = "D85"
  /\ call.k < MaxCalls
  /\ \E c \in PlotCalls :
       LET y_data == [i \in 1..c.n |-> i]
           out == plot_data(y_data, c.acquisition_time, c.q)
       IN IF out.outcome = "returned"
          THEN /\ wave' = out.wave
               /\ call' = [call EXCEPT !.k = @ + 1, !.outcome = out.outcome,
                                       !.wave = out.wave, !.data = out.data,
                                       !.pairs = @ \cup {<<out.wave, out.data>>}]
               /\ pc' = [pc EXCEPT ![w] = "D93"]
               /\ UNCHANGED fault
          ELSE /\ call' = [call EXCEPT !.k = @ + 1, !.outcome = out.outcome]
               /\ ThreadDies(w, "D91")
               /\ UNCHANGED wave
  /\ UNCHANGED <<previous_pointer, current_pointer, gd_string, buffer_string, params,
                 result, trace, drains, reads, stats, site, rp, tsl, terminal, data,
                 sweep_state, loop_state>>

\* plot_data line 93: data = y_data[-len(wave):]; the thread then goes on to
\* its next sweep and its next call of plot_data.
PlotDataData(w) ==
  /\ pc[w] = "D93"
  /\ data' = call.data
  /\ pc' = [pc EXCEPT ![w] = "D85"]
  /\ UNCHANGED <<previous_pointer, current_pointer, gd_string, buffer_string, params,
                 result, trace, drains, reads, stats, fault, site, rp, tsl, terminal,
                 call, wave, sweep_state, loop_state>>

\* Event loop, case "saveButton" (lines 314-315):
\* pd_data = pd.DataFrame(np.transpose(np.array([wave, data]))).  The call
\* record keeps the two sequences as the handler read them.
SaveData ==
  /\ Len(call.saved) < MaxSaves
  /\ call' = [call EXCEPT !.saved = Append(@, [wave |-> wave, data |-> data])]
  /\ UNCHANGED <<pc, previous_pointer, current_pointer, gd_string, buffer_string,
                 params, result, trace, drains, reads, stats, fault, site, rp, tsl,
                 terminal, wave, data, sweep_state, loop_state>>

\* A worker thread plotting the spectra of its sweeps, and the window.
InitPublish ==
  /\ previous_pointer = [w \in Workers |-> 1]
  /\ current_pointer = [w \in Workers |-> 0]
  /\ gd_string = [w \in Workers |-> <<>>]
  /\ buffer_string = [w \in Workers |-> <<>>]
  /\ result = [w \in Workers |-> NoResult]
  /\ trace = [w \in Workers |-> <<>>]
  /\ drains = [w \in Workers |-> <<>>]
  /\ reads = [w \in Workers |-> <<>>]
  /\ stats = [w \in Workers |-> <<>>]
  /\ fault = [w \in Workers |-> NoFault]
  /\ site = [w \in Workers |-> ""]
  /\ rp = RpInit
  /\ tsl = TslInit
  /\ terminal = FALSE
  /\ sweep_state = TRUE
  /\ loop_state = TRUE
  /\ call = NoPlotCall
  /\ wave = <<>>
  /\ data = <<>>
  /\ pc = [w \in Workers |-> IF w = 1 THEN "D85" ELSE "idle"]
  /\ params = [w \in Workers |-> DefaultParameters]

NextPublish == PlotDataWave(1) \/ PlotDataData(1) \/ SaveData

SpecPublish == InitPublish /\ [][NextPublish]_vars

(* ------------------------ main.py: waveSpin ---------------------------- *)
\* float(values["waveInput"]): the step the window's input field holds, "1"
\* as the window opens, or one that carries the value past the laser's range.
SpinSteps == {1, 150}

\* wavelength_spin_value as the last waveSpin event left it, 1500 (line 34)
\* before the first.
wavelength_spin_value == IF call.k = 0 THEN 1500 ELSE call.wavelength_spin_value

\* The commands the worker's sweep has written to the laser's channel.
LaserCommands(w) == SelectSeq(trace[w], LAMBDA c : c.ch = "TSL")

\* Event loop, case "waveSpin" (lines 306-312): wavelength_spin_value +=
\* float(values["waveInput"]); sts.set_wavelength(wavelength_spin_value),
\* whatever sweep_state is.  The call record keeps what the handler wrote to
\* the laser's channel and how many commands each worker had written to
\* that channel by then.
SpinWavelength ==
  /\ call.k < MaxSpins
  /\ \E step \in SpinSteps :
       LET value == wavelength_spin_value + step
           cmds == set_wavelength(value)
       IN /\ tsl' = TslAfter(tsl, cmds)
          /\ call' = [k |-> call.k + 1, fn |-> "waveSpin",
                      wavelength_spin_value |-> value, sent |-> cmds,
                      logged |-> exception_handler(IF cmds = <<>> THEN "ValueError"
                                                   ELSE "").logged,
                      sent0 |-> [w \in Workers |-> Len(LaserCommands(w))]]
  /\ UNCHANGED <<pc, previous_pointer, current_pointer, gd_string, buffer_string,
                 params, result, trace, drains, reads, stats, fault, site, rp,
                 terminal, wave, data, sweep_state, loop_state>>

\* The window with its wavelength spin box.
NextGuiSpin == NextGui \/ SpinWavelength

SpecGuiSpin == InitGui /\ [][NextGuiSpin]_vars

(* ======================= properties of a sweep cycle ==================== *)
ReadCmd(r) == Cmd("RP", "ACQ:SOUR1:DATA:STA:N?", r.start, r.n)
IsReadCmd(c) == c.cmd = "ACQ:SOUR1:DATA:STA:N?"
IsPrefix(s, t) == Len(s) <= Len(t) /\ s = SubSeq(t, 1, Len(s))

\* The segment requests of the drains that returned, in the order issued.
RECURSIVE DrainReads(_)
DrainReads(ds) == IF ds = <<>> THEN <<>> ELSE ds[1].reads \o DrainReads(Tail(ds))

\* The samples of a sequence of segment requests, in the order requested.
RECURSIVE Requested(_)
Requested(rs) == IF rs = <<>> THEN <<>> ELSE rs[1].samples \o Requested(Tail(rs))

\* The number of samples the drains asked for: the sum of cur - prev.
RECURSIVE DrainedCount(_)
DrainedCount(ds) ==
  IF ds = <<>> THEN 0 ELSE (ds[1].cur - ds[1].prev) + DrainedCount(Tail(ds))

Occurrences(s, x) == Cardinality({i \in 1..Len(s) : s[i] = x})

\* The tail drain of the worker's cycle has returned.
TailDrained(w) ==
  /\ drains[w] # <<>>
  /\ drains[w][Len(drains[w])].site = "tail"

\* C1: whenever the write pointer read is below previous_pointer, get_data
\* issues exactly two segment requests, (previous_pointer, BUFFER_SIZE -
\* previous_pointer) and then (1, current - 1), and returns the two replies
\* joined in that order; the requests on the wire are those of the drains.
C1_WrapDrainReadsTwoSegments ==
  \A w \in Workers :
    /\ \A i \in 1..Len(drains[w]) :
         LET d == drains[w][i] IN
           d.cur < d.prev =>
             /\ Len(d.reads) = 2
             /\ d.reads[1].start = d.prev /\ d.reads[1].n = BUFFER_SIZE - d.prev
             /\ d.reads[2].start = 1 /\ d.reads[2].n = d.cur - 1
             /\ d.ret = d.reads[1].reply \o Txt(",") \o d.reads[2].reply
    /\ (pc[w] = "G65" /\ current_pointer[w] < previous_pointer[w]) =>
         /\ Len(reads[w]) <= 2
         /\ Len(reads[w]) >= 1 =>
              /\ reads[w][1].start = previous_pointer[w]
              /\ reads[w][1].n = BUFFER_SIZE - previous_pointer[w]
         /\ Len(reads[w]) = 2 =>
              /\ reads[w][2].start = 1
              /\ reads[w][2].n = current_pointer[w] - 1
    /\ SelectSeq(trace[w], IsReadCmd)
         = [i \in 1..Len(DrainReads(drains[w]) \o reads[w]) |->
              ReadCmd((DrainReads(drains[w]) \o reads[w])[i])]

\* A wrapped drain has returned, both of its segments holding samples.
C1_Witness ==
  \E w \in Workers : \E i \in 1..Len(drains[w]) :
    /\ drains[w][i].cur < drains[w][i].prev
    /\ drains[w][i].reads[1].n > 0
    /\ drains[w][i].reads[2].n > 0

\* C2: with the write pointer advancing by fewer than BUFFER_SIZE positions
\* between polls, every sample written between the baseline reading and the
\* tail drain is requested by exactly one segment request of the cycle.
C2_EveryWrittenOffsetRequestedOnce ==
  \A w \in Workers :
    (TailDrained(w) /\ pc[w] \in {"L142", "L146", "L148"}) =>
      \A idx \in (BUFFER_SIZE + drains[w][1].prev)..(rp.total - 1) :
        Occurrences(Requested(DrainReads(drains[w])), idx) = 1

\* C3: the samples sweep_STS returns are in acquisition order: they are a
\* leading part of the samples requested, segment after segment in the order
\* the segments were requested, and so their write indices only increase.
C3_StreamInAcquisitionOrder ==
  \A w \in Workers :
    result[w].kind \in {"parsed", "returned"} =>
      /\ IsPrefix(result[w].data, Requested(DrainReads(drains[w])))
      /\ \A i, j \in 1..Len(result[w].data) :
           i < j => result[w].data[i] < result[w].data[j]

\* sweep_STS has returned samples of two loop drains, one of them wrapped.
C3_Witness ==
  \E w \in Workers :
    /\ pc[w] = "L148"
    /\ result[w].kind = "returned"
    /\ Len(drains[w]) >= 3
    /\ \E i \in 1..Len(drains[w]) :
         /\ drains[w][i].cur < drains[w][i].prev
         /\ drains[w][i].reads[1].n > 0
         /\ drains[w][i].reads[2].n > 0
    /\ Len(result[w].data) >= 4

\* C4: in a cycle without wraparound, polled Waiting n times and then
\* Triggered, sweep_STS returns without error a stream whose length is the
\* sum of the drained counts.
C4_StreamLengthIsDrainedSum ==
  \A w \in Workers :
    ( /\ TailDrained(w)
      /\ pc[w] = "L146" \/ (pc[w] = "raised" /\ fault[w].at = "L145")
      /\ \A i \in 1..Len(drains[w]) : drains[w][i].cur >= drains[w][i].prev
      /\ \A i \in 1..Len(stats[w]) : stats[w][i] \in {"WAIT", "TD"} )
    => /\ pc[w] # "raised"
       /\ Len(result[w].data) = DrainedCount(drains[w])

\* C5: after a "TD" reply the cycle sends ACQ:STOP, then one write-pointer
\* query and the segment requests of one drain that starts at the current
\* previous_pointer, then :WAV:SWE 0, and nothing else; no trigger-status
\* query follows the "TD" reply.
Commands(w) == SelectSeq(trace[w], LAMBDA c : c.ch # "time")

LastStatusQuery(w) ==
  CHOOSE k \in 1..Len(Commands(w)) :
    /\ Commands(w)[k].cmd = "ACQ:TRIG:STAT?"
    /\ \A j \in (k + 1)..Len(Commands(w)) : Commands(w)[j].cmd # "ACQ:TRIG:STAT?"

AfterLastStatus(w) ==
  SubSeq(Commands(w), LastStatusQuery(w) + 1, Len(Commands(w)))

C6_UnrecognizedStatusAborts ==
  \A w \in Workers :
    (stats[w] # <<>> /\ stats[w][Len(stats[w])] \notin {"TD", "WAIT"}) =>
      \A i \in 1..Len(AfterLastStatus(w)) :
        AfterLastStatus(w)[i] \in {Cmd("RP", "ACQ:STOP", 0, 0), Cmd("TSL", ":WAV:SWE", 0, 0)}

\* C7: when a request fails after start_logging, sweep_STS does not return
\* control before the digitizer has been told to stop logging and the laser
\* to stop sweeping.
C7_FailureStopsLoggingAndSweep ==
  \A w \in Workers :
    (pc[w] = "raised" /\ fault[w].at \in {"L120", "L122", "L124", "L129", "L130",
                                          "G63", "G66", "L145", "L146"}) =>
      /\ rp.logging = FALSE
      /\ tsl.swe = 0

\* C8: when a write-pointer query or a segment request of a drain fails, the
\* failure leaves sweep_STS as an exception: no samples are returned, and the
\* cycle sends nothing more (the request is not tried again).
C8_DrainFailureSurfaces ==
  \A w \in Workers :
    fault[w].at \in {"G63", "G66"} =>
      /\ pc[w] = "raised"
      /\ result[w] = [kind |-> "raised", data |-> <<>>]
      /\ Len(trace[w]) = fault[w].sent

\* A segment request of a loop drain has failed after an earlier drain
\* returned samples.
C8_Witness ==
  \E w \in Workers :
    /\ fault[w].at = "G66"
    /\ pc[w] = "raised"
    /\ Len(drains[w]) >= 1
    /\ Requested(DrainReads(drains[w])) # <<>>

(* ==================== properties of the window's sweeps ================= *)
\* The worker is inside a call of sweep_STS.
InSweepSTS(w) ==
  pc[w] \in {"L98", "L102", "L103", "L104", "L106", "L108", "L109", "L110", "L111",
             "L113", "L116", "L119", "L122", "L124", "L129", "L130", "G63", "G65",
             "L142", "L146"}

InRange(q) ==
  /\ WAVELENGTH_MIN <= q.start_wavelength /\ q.start_wavelength <= WAVELENGTH_MAX
  /\ WAVELENGTH_MIN <= q.stop_wavelength /\ q.stop_wavelength <= WAVELENGTH_MAX
  /\ SPEED_MIN10 <= q.speed /\ q.speed <= SPEED_MAX10
  /\ q.power <= POWER_MAX

\* C10: when any of the four parameters is out of range, set_sweep_parameters
\* sends no command at all to the laser.
C10_OutOfRangeSendsNothing ==
  \A w \in Workers :
    (pc[w] \in {"P81", "P82", "P83", "P84", "L98"} /\ ~InRange(params[w])) =>
      trace[w] = <<>>

(* ====================== properties of the setters ====================== *)
\* The argument is in the range, or the code set, the method documents
\* (strings compared without regard to case).
InDocumentedRange(c) ==
  CASE c.fn \in {"set_wavelength", "set_start_wavelength", "set_stop_wavelength"}
         -> 1480 <= c.n /\ c.n <= 1640
    [] c.fn = "set_sweep_speed" -> 5 <= c.n /\ c.n <= 2000
    [] c.fn = "set_sweep_step" -> 1 <= c.n /\ c.n <= 1600000
    [] c.fn = "set_power" -> c.n <= 13
    [] c.fn \in {"set_diode_state", "set_external_trigger", "set_trigger_edge",
                 "set_trigger_standby"} -> c.n \in {0, 1}
    [] c.fn = "set_sweep_mode" -> c.n \in 0..3
    [] c.fn = "set_trigger_output" -> lower(c.s) \in {"none", "stop", "start", "step"}
    [] c.fn = "set_averaging" -> upper(c.s) \in {"ON", "OFF"}
    [] c.fn = "set_data_units" -> upper(c.s) \in {"RAW", "VOLTS"}
    [] c.fn = "set_decimation" -> \E e \in 0..20 : c.n = 2^e

\* The commands the last call has sent.
SentByCall == SubSeq(trace[1], call.sent0 + 1, Len(trace[1]))

\* C11: a setter called with a value that fails its range check ends with an
\* error outcome the caller can tell from success: it does not return what a
\* successful call returns.
C11_RangeFailureReported ==
  (call.k > 0 /\ ~InDocumentedRange(call)) => call.returned # "None"

(* ================== properties of the trigger set-up =================== *)
\* The places of the software trigger among the commands of the worker's call.
SoftTriggerAt(w) ==
  {k \in 1..Len(trace[w]) : trace[w][k].cmd = ":TRIG:INP:SOFT"}

\* C12: when sweep_STS sends the software trigger, the last external-trigger
\* setting the laser has been sent is 1 (external) and the last standby
\* setting it has been sent is 1 (enabled).
C12_ArmedAtSoftwareTrigger ==
  \A w \in Workers : \A k \in SoftTriggerAt(w) :
    LET t == TslAfter(TslInit, SubSeq(trace[w], 1, k - 1))
    IN t.ext = 1 /\ t.stan = 1

(* =================== properties of the polling cadence ================= *)
\* The worker's cycle has drained without wraparound, on recognized
\* trigger-status replies, and has reached the conversion of line 145.
NoWrapCycleParsed(w) ==
  /\ TailDrained(w)
  /\ pc[w] = "L146" \/ (pc[w] = "raised" /\ fault[w].at = "L145")
  /\ \A i \in 1..Len(drains[w]) : drains[w][i].cur >= drains[w][i].prev
  /\ \A i \in 1..Len(stats[w]) : stats[w][i] \in {"WAIT", "TD"}

\* What sweep_STS accumulates when the range the cycle has drained, from the
\* baseline pointer to the tail drain's pointer, is drained in one poll.
OnePollText(w) ==
  LET p0 == drains[w][1].prev
      pf == drains[w][Len(drains[w])].cur
  IN Accumulate(<<>>, DropFirst(Accumulate(<<>>,
                        Reply(Segment(p0, pf - p0, rp.total), terminal))))

\* C13: without wraparound, the stream a cycle returns is the stream of one
\* large poll over the same written range, however the range was split
\* among the polls, polls that found no new sample included.
C13_StreamIndependentOfCadence ==
  \A w \in Workers :
    NoWrapCycleParsed(w) =>
      /\ pc[w] = "L146"
      /\ result[w].data = Floats(Converted(OnePollText(w)))

Parsed(w) == pc[w] = "L146" \/ (pc[w] = "raised" /\ fault[w].at = "L145")

\* C15: the conversion drops the final token only when it is empty: when
\* every token of the accumulated text is a number, the final one included,
\* every token is converted, so there are as many samples as tokens.
C15_OnlyEmptyFinalTokenDropped ==
  \A w \in Workers :
    LET toks == Tokens(buffer_string[w]) IN
      (Parsed(w) /\ \A i \in 1..Len(toks) : IsFloat(toks[i])) =>
        /\ pc[w] = "L146"
        /\ result[w].data = Floats(toks)

(* ================ properties of the checks of the setters ============== *)
\* C16: set_decimation(n) sends ACQ:DEC n when n is a power of two (1, 2, 4,
\* ...) and the channel takes the command, and sends nothing for any other
\* integer: zero, a negative number, a number that is not a power of two.
C16_DecimationSentIffPowerOfTwo ==
  (call.k > 0 /\ call.fn = "set_decimation") =>
    LET pow2 == \E e \in 0..20 : call.n = 2^e IN
      /\ ~pow2 => SentByCall = <<>>
      /\ (pow2 /\ call.raised = "") => SentByCall = <<Cmd("RP", "ACQ:DEC", call.n, 0)>>
      /\ SentByCall # <<>> => rp.dec = call.n

\* set_decimation has refused zero after an earlier call sent its command.
C16_Witness ==
  /\ call.k = 2
  /\ call.fn = "set_decimation"
  /\ call.n = 0
  /\ call.sent0 = 1
  /\ Len(trace[1]) = 1

\* C17: a range-checked setter of the laser or the digitizer called with a
\* value outside its documented range or code set sends no command, and both
\* instruments are as they were before the call.
C17_OutOfRangeSetterLeavesState ==
  (call.k > 0 /\ call.fn # "set_decimation" /\ ~InDocumentedRange(call)) =>
    /\ SentByCall = <<>>
    /\ rp = call.rp0
    /\ tsl = call.tsl0

\* A setter has refused its argument after an earlier call changed the laser.
C17_Witness ==
  /\ call.k = 2
  /\ call.fn # "set_decimation"
  /\ ~InDocumentedRange(call)
  /\ call.sent0 = 1
  /\ tsl # TslInit

(* ===================== properties of plot_data ========================= *)
\* A call of plot_data has been made with a list of parameters.
PlotCalled == call.k > 0 /\ call.fn = "plot_data" /\ call.q.kind = "list"

\* The places i (from 1) of the time axis, whose value is
\* (i - 1) * acquisition_time / (n - 1), at or after acquisition_time -
\* (maxwave - minwave) / speed, for a speed above 0.
InWindow ==
  LET n == Len(call.y_data)
      T == call.acquisition_time
      d == IF n = 1 THEN 1 ELSE n - 1
  IN {i \in 1..n :
        call.q.speed * (T * d - (IF n = 1 THEN 0 ELSE (i - 1) * T))
          <= (call.q.maxwave - call.q.minwave) * d}

\* C18: when plot_data produces a spectrum, its wavelengths are one for each
\* timestamp t of the axis with t >= acquisition_time - (stop - start) /
\* speed, its samples are the trailing samples of the stream, as many as the
\* wavelengths, and it is no longer than the stream.
C18_SpectrumIsRetainedSuffix ==
  (PlotCalled /\ call.outcome = "returned") =>
    LET n == Len(call.y_data)
        m == Len(call.wave)
    IN /\ m = Cardinality(InWindow)
       /\ Len(call.data) = m
       /\ m <= n
       /\ \A j \in 1..m : call.data[j] = call.y_data[n - m + j]

\* plot_data has kept three of five samples: the spec's example, with 5
\* samples for its 200.
C18_Witness ==
  /\ PlotCalled
  /\ call.outcome = "returned"
  /\ Len(call.y_data) = 5
  /\ call.acquisition_time = 2
  /\ call.q.speed = 100 /\ call.q.minwave = 1500 /\ call.q.maxwave = 1600
  /\ call.data = <<3, 4, 5>>

\* C19: for every stream that is not empty and every speed other than 0,
\* plot_data produces a spectrum, and the wavelength of its last sample is
\* exactly the stop wavelength.
C19_LastWavelengthIsStop ==
  (PlotCalled /\ call.y_data # <<>> /\ call.q.speed # 0) =>
    /\ call.outcome = "returned"
    /\ REq(call.wave[Len(call.wave)], R(call.q.maxwave))

\* C20: called with a speed of 0 or with an empty stream, plot_data fails
\* with the error of a rejected parameter (ValueError, as the setters raise),
\* not with another exception and not by producing a spectrum.
C20_ZeroSpeedOrEmptyStreamRejected ==
  (PlotCalled /\ (call.q.speed = 0 \/ call.y_data = <<>>)) =>
    call.outcome = "ValueError"

C22_ReadsWithinBuffer ==
  \A w \in Workers : \A i \in 1..Len(trace[w]) :
    IsReadCmd(trace[w][i]) =>
      /\ trace[w][i].a \in 0..(BUFFER_SIZE - 1)
      /\ trace[w][i].b >= 0
      /\ trace[w][i].a + trace[w][i].b <= BUFFER_SIZE

\* C23: a drain that found the write pointer at or past previous_pointer
\* issued exactly one segment read, of current_pointer - previous_pointer
\* samples from previous_pointer; and once a drain has returned,
\* previous_pointer is the write pointer that drain read, which is where the
\* next drain starts.
C23_PlainDrainOneReadAndPointerAdvances ==
  \A w \in Workers :
    /\ \A i \in 1..Len(drains[w]) :
         LET d == drains[w][i] IN
           /\ d.cur >= d.prev =>
                /\ Len(d.reads) = 1
                /\ d.reads[1].start = d.prev
                /\ d.reads[1].n = d.cur - d.prev
           /\ i < Len(drains[w]) => drains[w][i + 1].prev = d.cur
    /\ drains[w] # <<>> => previous_pointer[w] = drains[w][Len(drains[w])].cur
    /\ (pc[w] = "G65" /\ current_pointer[w] >= previous_pointer[w]) =>
         /\ Len(reads[w]) <= 1
         /\ \A j \in 1..Len(reads[w]) :
              /\ reads[w][j].start = previous_pointer[w]
              /\ reads[w][j].n = current_pointer[w] - previous_pointer[w]

\* Two drains have returned, the first without a wrap and with new samples,
\* the second a wrapped one.
C23_Witness ==
  /\ Len(drains[1]) = 2
  /\ drains[1][1].cur > drains[1][1].prev
  /\ drains[1][2].cur < drains[1][2].prev
  /\ previous_pointer[1] = drains[1][2].cur

(* ================= properties of the order of a cycle =================== *)
\* The place of a command in the opening of a cycle: 1 the acquisition
\* configuration and the laser's trigger arming, 2 start_sweep,
\* 3 start_logging, 4 a write-pointer query, 5 the trigger-source selection,
\* 6 the software trigger, 7 a trigger-status poll, 8 anything else.
Stage(c) ==
  CASE c.cmd \in {":TRIG:INP:EXT", ":TRIG:OUTP", ":TRIG:INP:STAN", "ACQ:STOP",
                  "ACQ:AVG OFF", "ACQ:DEC", "ACQ:DATA:UNITS VOLTS", "ACQ:TRIG:LEV"} -> 1
    [] c.cmd = ":WAV:SWE" /\ c.a = 1 -> 2
    [] c.cmd = "ACQ:START"           -> 3
    [] c.cmd = "ACQ:WPOS?"           -> 4
    [] c.cmd = "ACQ:TRIG CH2_NE"     -> 5
    [] c.cmd = ":TRIG:INP:SOFT"      -> 6
    [] c.cmd = "ACQ:TRIG:STAT?"      -> 7
    [] OTHER                         -> 8

\* The commands of the worker's cycle up to and including its first
\* trigger-status poll.
Opening(w) ==
  LET cs == Commands(w)
      polls == {k \in 1..Len(cs) : Stage(cs[k]) = 7}
  IN IF polls = {} THEN cs
     ELSE SubSeq(cs, 1, CHOOSE k \in polls : \A j \in polls : k <= j)

\* C24: up to its first trigger-status poll a cycle sends the acquisition
\* configuration and the trigger arming, then start_sweep, then
\* start_logging, then the baseline write-pointer query, then the
\* trigger-source selection, then the software trigger, each once and in this
\* order; the software trigger is sent once in the cycle, and no segment read
\* is sent before it.
C24_CycleCommandOrder ==
  \A w \in Workers :
    LET cs == Commands(w)
        op == Opening(w)
    IN /\ \A k \in 1..Len(op) :
            /\ Stage(op[k]) <= 7
            /\ \A j \in 1..(k - 1) : Stage(op[j]) <= Stage(op[k])
            /\ \A s \in 2..(Stage(op[k]) - 1) :
                 Cardinality({j \in 1..(k - 1) : Stage(op[j]) = s}) = 1
            /\ Stage(op[k]) >= 2 =>
                 {"ACQ:AVG OFF", "ACQ:DEC", "ACQ:DATA:UNITS VOLTS", "ACQ:TRIG:LEV",
                  ":TRIG:INP:EXT", ":TRIG:INP:STAN"}
                   \subseteq {op[j].cmd : j \in 1..(k - 1)}
       /\ Cardinality(SoftTriggerAt(w)) <= 1
       /\ \A k \in 1..Len(cs) :
            (IsReadCmd(cs[k]) \/ Stage(cs[k]) = 7) =>
              \E j \in 1..(k - 1) : Stage(cs[j]) = 6

\* A cycle has polled twice and read a segment in between, after one
\* software trigger.
C24_Witness ==
  /\ Len(stats[1]) = 2
  /\ Len(drains[1]) >= 1
  /\ \E k \in 1..Len(Commands(1)) : IsReadCmd(Commands(1)[k])
  /\ Cardinality(SoftTriggerAt(1)) = 1
  /\ pc[1] = "L148"

\* C25: the reading of the clock into acquisition_start comes after the
\* baseline write-pointer query and after the trigger-source selection, and
\* the next command after it is the software trigger.
C25_StartTimestampJustBeforeTrigger ==
  \A w \in Workers : \A k \in 1..Len(trace[w]) :
    trace[w][k] = TimeMark("acquisition_start") =>
      /\ \E j \in 1..(k - 1) : trace[w][j].cmd = "ACQ:WPOS?"
      /\ \E j \in 1..(k - 1) : trace[w][j].cmd = "ACQ:TRIG CH2_NE"
      /\ k < Len(trace[w]) => trace[w][k + 1].cmd = ":TRIG:INP:SOFT"

C28_FlagIdleWhenNoSweepRuns ==
  (\A w \in Workers : pc[w] \in {"idle", "raised"}) => ~sweep_state

(* ==================== properties of termination ========================= *)
\* C29: with every instrument request answered and "TD" reported in the end,
\* the call of sweep_STS returns, having sent stop_logging after the
\* software trigger and stop_sweep after that.
C29_CycleRunsToCompletion ==
  <>(/\ pc[1] = "L148"
     /\ \E i, j, k \in 1..Len(trace[1]) :
          /\ i < j /\ j < k
          /\ trace[1][i].cmd = ":TRIG:INP:SOFT"
          /\ trace[1][j].cmd = "ACQ:STOP"
          /\ trace[1][k] = Cmd("TSL", ":WAV:SWE", 0, 0))

(* ===================== properties of an empty poll ====================== *)
\* A poll of the loop that found the write pointer where the drain before
\* had left it.
EmptyPoll(d) == d.site = "loop" /\ d.cur = d.prev

\* Lines 135 and 140 over a sequence of drains: what sweep_STS accumulates
\* from the texts they returned, starting from text.
RECURSIVE AccumulateAll(_, _)
AccumulateAll(text, ds) ==
  IF ds = <<>> THEN text ELSE AccumulateAll(Accumulate(text, ds[1].ret), Tail(ds))

\* C30: a cycle without wraparound in which a poll of the loop found no new
\* sample raises nothing at the conversion, and returns the stream that the
\* cycle's other drains alone give.
C30_EmptyPollHarmless ==
  \A w \in Workers :
    (NoWrapCycleParsed(w) /\ \E i \in 1..Len(drains[w]) : EmptyPoll(drains[w][i])) =>
      /\ pc[w] = "L146"
      /\ LET others == SelectSeq(drains[w], LAMBDA d : ~EmptyPoll(d))
             toks == Converted(AccumulateAll(<<>>, others))
         IN /\ \A i \in 1..Len(toks) : IsFloat(toks[i])
            /\ result[w].data = Floats(toks)

====
